---- MODULE Spec2Model ----
(***************************************************************************)
(* Verification model of artyomb/tiles-proxy-cache, src/ext:               *)
(*   terrain_downsample_extension.cpp  pixel codec and raster downsampler  *)
(*   lerc_extension.cpp / .c           LERC blob -> Mapbox Terrain-RGB PNG *)
(*                                                                         *)
(* Number representation.                                                  *)
(*  - Mapbox elevations are fixed-point integers in units of 1/40 m, a     *)
(*    quarter of the 0.1 m quantization step, so that (e + 10000) / 0.1    *)
(*    and the mean of four decoded elevations are exact.  Elevations whose *)
(*    code leaves the int32 range cannot be written as numbers here; they  *)
(*    are the classes "above_int32" and "below_int32".                     *)
(*  - Terrarium elevations are fixed-point integers in units of 1/1024 m;  *)
(*    every float operation of the Terrarium code is followed by F32Round, *)
(*    IEEE-754 binary32 round-to-nearest-even.                             *)
(*  - A conversion whose operand is out of range of the target type is     *)
(*    undefined behaviour; its result is an argument of the operator and   *)
(*    is chosen by the calling action among the results a build produces.  *)
(***************************************************************************)
EXTENDS Integers, Sequences, FiniteSets, TLC

VARIABLES
    cpc,      \* codec call sequence: "idle", "encoded", "decoded"
    cscheme,  \* "mapbox" or "terrarium"
    celev,    \* the elevation passed to encode: [cls, v]
    crgb,     \* <<r, g, b>> written by encode
    cdec,     \* the elevation returned by decode
    cprev,    \* the previous encode call: [elev, rgb], or NoCall
    lpc,      \* LERC pipeline call: "idle", "done"
    blob,     \* the LERC blob passed in, as the LERC library reads it
    lentry,   \* the entry point called: lerc_extension.cpp or lerc_extension.c
    lresult,  \* what the call raised or returned
    ldecodes, \* number of lerc_decode requests made by the call
    lelev,    \* the decoded elevation grid (row-major)
    lout,     \* [width, height, rgb]: the raster handed to the PNG writer
    dpc,      \* downsample call: "idle", "done"
    dargs,    \* [png, target_size, encoding_type, method]
    dresult,  \* what the call raised or returned
    dout,     \* the container returned
    dtrace    \* what the call did: [png_decoded, decodes, encodes, oob]

cvars == <<cpc, cscheme, celev, crgb, cdec, cprev>>
lvars == <<lpc, blob, lentry, lresult, ldecodes, lelev, lout>>
dvars == <<dpc, dargs, dresult, dout, dtrace>>
vars == <<cvars, lvars, dvars>>

----------------------------------------------------------------------------
(* Program constants *)

MAPBOX_TERRAIN_RGB_OFFSET == 10000
\* MAPBOX_TERRAIN_RGB_SCALE = 0.1, as steps per metre
MAPBOX_TERRAIN_RGB_STEPS_PER_M == 10
MAPBOX_TERRAIN_RGB_MAX_24BIT == 16777215
TERRARIUM_OFFSET == 32768

\* fixed-point resolution: model units per Mapbox quantization step
MbxSub == 2 * 2
\* model units per metre, Mapbox
MbxPerM == MbxSub * MAPBOX_TERRAIN_RGB_STEPS_PER_M
\* model units per metre, Terrarium (2^-10 m)
TerPerM == 4 * 256

INT32_MAX == 2147483647
INT32_MIN == (-2147483647) - 1

----------------------------------------------------------------------------
(* Arithmetic helpers *)

Abs(x) == IF x < 0 THEN -x ELSE x

\* std::round of n/d, d > 0: nearest integer, halfway cases away from zero
RoundDiv(n, d) ==
    IF n >= 0 THEN (2 * n + d) \div (2 * d)
    ELSE -((2 * (-n) + d) \div (2 * d))

\* conversion of n/d, d > 0, to an integer type: truncation toward zero
TruncDiv(n, d) == IF n >= 0 THEN n \div d ELSE -((-n) \div d)

\* std::clamp
Clamp(x, lo, hi) == IF x < lo THEN lo ELSE IF x > hi THEN hi ELSE x

RECURSIVE F32Step(_, _)
\* spacing of binary32 numbers at magnitude a, in units of 2^-10 (s starts at 1)
F32Step(a, s) == IF a < 16777216 * s THEN s ELSE F32Step(a, 2 * s)

\* binary32 round-to-nearest, ties to even, of x units of 2^-10
F32Round(x) ==
    LET a == Abs(x)
        s == F32Step(a, 1)
        q == a \div s
        r == a % s
        m == IF 2 * r < s THEN q
             ELSE IF 2 * r > s THEN q + 1
             ELSE IF q % 2 = 0 THEN q ELSE q + 1
    IN  IF x < 0 THEN -(m * s) ELSE m * s

\* R = bits 16-23, G = bits 8-15, B = bits 0-7 of a code
Pack24(code) == << (code \div 65536) % 256, (code \div 256) % 256, code % 256 >>

----------------------------------------------------------------------------
(* TerrainPixelCodec: terrain_downsample_extension.cpp *)

\* results a build gives for static_cast<int32_t> of a double above INT32_MAX
\* or below INT32_MIN: x86 cvttsd2si gives INT32_MIN, AArch64 fcvtzs saturates
CastInt32OutOfRange(cls) ==
    IF cls = "above_int32" THEN {INT32_MIN, INT32_MAX} ELSE {INT32_MIN}

\* results a build gives for static_cast<uint8_t>(256.0f): the low byte, or 255
CastUint8OutOfRange == {0, 255}

decode_mapbox_terrain_rgb(r, g, b) ==
    -(MAPBOX_TERRAIN_RGB_OFFSET * MbxPerM)
      + ((r * 256 * 256) + (g * 256) + b) * MbxSub

decode_terrarium(r, g, b) ==
    F32Round(F32Round((r * 256 + g) * TerPerM + (b * TerPerM) \div 256)
             - TERRARIUM_OFFSET * TerPerM)

\* static_cast<int32_t>(std::round((elevation + OFFSET) / SCALE)); ub is the
\* result of the cast when the rounded value is not an int32
MapboxRoundedCode(cls, v, ub) ==
    IF cls = "finite"
    THEN RoundDiv(v + MAPBOX_TERRAIN_RGB_OFFSET * MbxPerM, MbxSub)
    ELSE ub

encode_mapbox_terrain_rgb(cls, v, ub) ==
    Pack24(Clamp(MapboxRoundedCode(cls, v, ub), 0, MAPBOX_TERRAIN_RGB_MAX_24BIT))

\* b = static_cast<uint8_t>(std::round(F * 256.0f)); ub is the result of the
\* cast when the rounded value is 256
TerrariumFractionByte(F, ub) ==
    LET rounded == RoundDiv(F * 256, TerPerM)
    IN  IF rounded <= 255 THEN rounded ELSE ub

encode_terrarium(v, ub) ==
    LET value == F32Round(v + TERRARIUM_OFFSET * TerPerM)
        H     == value \div TerPerM
        F     == value - H * TerPerM
    IN  << (H \div 256) % 256, H % 256, TerrariumFractionByte(F, ub) >>

----------------------------------------------------------------------------
(* Inputs of the codec calls *)

MbxWindow == 6
TerWindow == 8

Finite(v) == [cls |-> "finite", v |-> v]

\* Mapbox: around -10000 m, 0 m and 1667721.5 m (code 16777215), and the two
\* classes of elevations whose code is not an int32
MapboxElevations ==
    { Finite(c + d) : c \in { -(MAPBOX_TERRAIN_RGB_OFFSET * MbxPerM), 0,
                              MAPBOX_TERRAIN_RGB_MAX_24BIT * MbxSub
                                - MAPBOX_TERRAIN_RGB_OFFSET * MbxPerM },
                      d \in (-MbxWindow)..MbxWindow }
    \cup { [cls |-> "above_int32", v |-> 0], [cls |-> "below_int32", v |-> 0] }

\* Terrarium: the binary32 numbers around -32768 m, -1 m, 0 m, 100.5 m and
\* below 32768 m
InTerrariumDomain(v) ==
    -(TERRARIUM_OFFSET * TerPerM) <= v /\ v < TERRARIUM_OFFSET * TerPerM

TerrariumElevations ==
    { e \in { Finite(c + d) : c \in { -(TERRARIUM_OFFSET * TerPerM), -TerPerM, 0,
                                       201 * (TerPerM \div 2),
                                       TERRARIUM_OFFSET * TerPerM },
                               d \in (-TerWindow)..TerWindow } :
        InTerrariumDomain(e.v) /\ F32Round(e.v) = e.v }

CodecElevations(scheme) ==
    IF scheme = "mapbox" THEN MapboxElevations ELSE TerrariumElevations

NoCall == [elev |-> [cls |-> "none", v |-> 0], rgb |-> <<>>]

----------------------------------------------------------------------------
(* Idle values of the three variable groups *)

CodecIdle ==
    /\ cpc = "off" /\ cscheme = "none" /\ celev = [cls |-> "none", v |-> 0]
    /\ crgb = <<>> /\ cdec = 0 /\ cprev = NoCall

NoBlob == [size |-> 0]
NoRaster == [width |-> 0, height |-> 0, rgb |-> <<>>]

LercIdle ==
    /\ lpc = "off" /\ blob = NoBlob /\ lentry = "none" /\ lresult = "none"
    /\ ldecodes = 0 /\ lelev = <<>> /\ lout = NoRaster

NoTrace == [png_decoded |-> FALSE, decodes |-> 0, encodes |-> 0, oob |-> FALSE]

DownIdle ==
    /\ dpc = "off" /\ dargs = [target_size |-> 0] /\ dresult = "none"
    /\ dout = NoRaster /\ dtrace = NoTrace

----------------------------------------------------------------------------
(* Calls of the pixel codec: encode an elevation, decode the bytes written *)

CodecInit ==
    /\ cpc = "idle"
    /\ cscheme \in {"mapbox", "terrarium"}
    /\ celev \in CodecElevations(cscheme)
    /\ crgb = <<>>
    /\ cdec = 0
    /\ cprev = NoCall
    /\ LercIdle /\ DownIdle

CallEncodeMapbox ==
    /\ cpc = "idle" /\ cscheme = "mapbox"
    /\ \E ub \in CastInt32OutOfRange(celev.cls) :
          crgb' = encode_mapbox_terrain_rgb(celev.cls, celev.v, ub)
    /\ cpc' = "encoded"
    /\ UNCHANGED <<cscheme, celev, cdec, cprev, lvars, dvars>>

CallEncodeTerrarium ==
    /\ cpc = "idle" /\ cscheme = "terrarium"
    /\ \E ub \in CastUint8OutOfRange :
          crgb' = encode_terrarium(celev.v, ub)
    /\ cpc' = "encoded"
    /\ UNCHANGED <<cscheme, celev, cdec, cprev, lvars, dvars>>

CallDecodeMapbox ==
    /\ cpc = "encoded" /\ cscheme = "mapbox"
    /\ cdec' = decode_mapbox_terrain_rgb(crgb[1], crgb[2], crgb[3])
    /\ cpc' = "decoded"
    /\ UNCHANGED <<cscheme, celev, crgb, cprev, lvars, dvars>>

CallDecodeTerrarium ==
    /\ cpc = "encoded" /\ cscheme = "terrarium"
    /\ cdec' = decode_terrarium(crgb[1], crgb[2], crgb[3])
    /\ cpc' = "decoded"
    /\ UNCHANGED <<cscheme, celev, crgb, cprev, lvars, dvars>>

\* the caller passes the next elevation; the call just made is remembered
NextElevation ==
    /\ cpc = "decoded"
    /\ cprev' = [elev |-> celev, rgb |-> crgb]
    /\ celev' \in CodecElevations(cscheme)
    /\ cpc' = "idle"
    /\ crgb' = <<>>
    /\ cdec' = 0
    /\ UNCHANGED <<cscheme, lvars, dvars>>

CodecNext ==
    \/ CallEncodeMapbox
    \/ CallEncodeTerrarium
    \/ CallDecodeMapbox
    \/ CallDecodeTerrarium
    \/ NextElevation

SpecCodec == CodecInit /\ [][CodecNext]_vars

----------------------------------------------------------------------------
(* LERC pipeline: lerc_extension.cpp (lerc_to_mapbox_png) and              *)
(* lerc_extension.c (lerc_to_mapbox_png_c)                                 *)

DT_FLOAT == 6
LERC_OK == 0
\* the grid width and height that are cropped by one
CROP_FROM == 257
CROP_TO == 256

\* const int tw = (nCols == 257) ? 256 : nCols
CropDim(n) == IF n = CROP_FROM THEN CROP_TO ELSE n

\* static_cast<int32_t>((e + MAPBOX_OFFSET) / MAPBOX_SCALE), clamped: the
\* conversion truncates toward zero; ub is its result when the quotient is
\* not an int32
LercMapboxCode(e, ub) ==
    Clamp(IF e.cls = "finite"
          THEN TruncDiv(e.v + MAPBOX_TERRAIN_RGB_OFFSET * MbxPerM, MbxSub)
          ELSE IF e.cls = "above_int32" THEN ub ELSE INT32_MIN,
          0, MAPBOX_TERRAIN_RGB_MAX_24BIT)

\* mutant: the cropped width used as the row stride of the source grid
SrcRowCropped(y, nCols) == y * CropDim(nCols)

\* const int row = y * nCols (cpp); int src_idx = y * src_width + x (c)
SrcRow(y, nCols) == y * nCols

\* A buffer of n items is held as rows of `stride` items: item k (from 0) of
\* the buffer is buf[k \div stride + 1][k % stride + 1].
ItemAt(buf, stride, k) == buf[(k \div stride) + 1][(k % stride) + 1]

BufferLen(buf) == IF Len(buf) = 0 THEN 0 ELSE Len(buf) * Len(buf[1])

\* byte c (0 = R, 1 = G, 2 = B) of a packed code
ByteOf(code, c) == Pack24(code)[c + 1]

\* the bytes of a raster of tw x th pixels whose pixel p (from 0) has code[p]
RgbOfCodes(code, tw, th) ==
    [ y \in 1..th |-> [ j \in 1..(tw * 3) |->
        LET k == (y - 1) * (tw * 3) + (j - 1)
        IN  ByteOf(ItemAt(code, tw, k \div 3), k % 3) ] ]

\* the pixel loop of lerc_to_mapbox_png: the bytes written through rgb_ptr
LercRgbLoop(elev, nCols, tw, th, ub) ==
    LET code == [ y \in 1..th |-> [ x \in 1..tw |->
                    LercMapboxCode(
                        ItemAt(elev, nCols, SrcRow(y - 1, nCols) + (x - 1)), ub) ] ]
    IN  RgbOfCodes(code, tw, th)

\* elevation_to_mapbox_c: its return code and the bytes written to rgb_data
elevation_to_mapbox_c(elev, target_count, src_width, target_width, target_height, ub) ==
    IF target_count <= 0
    THEN [rc |-> -1, rgb |-> <<>>]
    ELSE LET code == [ y \in 1..target_height |-> [ x \in 1..target_width |->
                         LET src_idx == SrcRow(y - 1, src_width) + (x - 1)
                         IN  LercMapboxCode(ItemAt(elev, src_width, src_idx), ub) ] ]
         IN  [rc |-> 0, rgb |-> RgbOfCodes(code, target_width, target_height)]

\* create_png_c / stbi_write_png_to_mem: fails on a non-positive dimension
create_png_c(width, height) == ~(width <= 0 \/ height <= 0)

(* Inputs: what lerc_getBlobInfo and lerc_decode report for the blob *)

MaxPattern == 2
MaxSmallDim == 2

\* the value lerc_decode writes at index i of the grid, for blob content p
PatternValue(p, i) ==
    IF p = 1 THEN Finite((i % 7) * 3 + (i % 5) * MbxPerM)
    ELSE IF i % 11 = 3 THEN [cls |-> "above_int32", v |-> 0]
    ELSE Finite(-(MAPBOX_TERRAIN_RGB_OFFSET * MbxPerM) - 8 + ((i * p) % 13) * 5)

\* the nCols * nRows * nBands values lerc_decode writes to the grid
DecodedGrid(b) ==
    [ y \in 1..(b.nRows * b.nBands) |-> [ x \in 1..b.nCols |->
        PatternValue(b.pattern, (y - 1) * b.nCols + (x - 1)) ] ]

\* the results of the int32 conversions of one call: more than one only when
\* the grid holds an elevation whose code is not an int32
GridCastOutcomes(elev) ==
    IF \E y \in 1..Len(elev) : \E x \in 1..Len(elev[y]) : elev[y][x].cls # "finite"
    THEN CastInt32OutOfRange("above_int32")
    ELSE {INT32_MIN}

LercDims == (0..MaxSmallDim) \cup {CROP_FROM}

\* the full 257 x 257 grid is taken with content 1 only
Blobs ==
    { b \in [ size : {0, 64}, infoRc : {LERC_OK, 1}, nCols : LercDims, nRows : LercDims,
              nBands : {0, 1}, dataType : {DT_FLOAT, 1}, nValidPixels : {0, 5},
              decodeRc : {LERC_OK, 1}, pattern : 1..MaxPattern ] :
        (b.nCols = CROP_FROM /\ b.nRows = CROP_FROM) => b.pattern = 1 }

LercInit ==
    /\ lpc = "idle"
    /\ blob \in Blobs
    /\ lentry = "none" /\ lresult = "none" /\ ldecodes = 0
    /\ lelev = <<>> /\ lout = NoRaster
    /\ CodecIdle /\ DownIdle

\* the call ends without a raster
LercEnds(entry, result, decodes) ==
    /\ lpc' = "done" /\ lentry' = entry /\ lresult' = result
    /\ ldecodes' = decodes /\ lelev' = <<>> /\ lout' = NoRaster
    /\ UNCHANGED <<blob, cvars, dvars>>

\* lerc_extension.cpp
lerc_to_mapbox_png ==
    /\ lpc = "idle"
    /\ IF blob.size = 0
       THEN LercEnds("cpp", "ArgError: Empty LERC data", 0)
       ELSE IF blob.infoRc # LERC_OK
       THEN LercEnds("cpp", "RuntimeError: LERC getBlobInfo failed", 0)
       ELSE IF blob.nCols <= 0 \/ blob.nRows <= 0 \/ blob.nBands <= 0
       THEN LercEnds("cpp", "RuntimeError: Invalid LERC dimensions", 0)
       ELSE IF blob.dataType # DT_FLOAT
       THEN LercEnds("cpp", "RuntimeError: Unsupported LERC data type", 0)
       ELSE IF blob.nValidPixels <= 0
       THEN LercEnds("cpp", "Qnil", 0)
       ELSE IF blob.decodeRc # LERC_OK
       THEN LercEnds("cpp", "RuntimeError: LERC decode failed", 1)
       ELSE LET tw == CropDim(blob.nCols)
                th == CropDim(blob.nRows)
                elev == DecodedGrid(blob)
            IN  /\ \E ub \in GridCastOutcomes(elev) :
                      lout' = [width |-> tw, height |-> th,
                               rgb |-> LercRgbLoop(elev, blob.nCols, tw, th, ub)]
                /\ lelev' = elev
                /\ lpc' = "done" /\ lentry' = "cpp" /\ lresult' = "PNG"
                /\ ldecodes' = 1
                /\ UNCHANGED <<blob, cvars, dvars>>

\* lerc_extension.c
lerc_to_mapbox_png_c ==
    /\ lpc = "idle"
    /\ IF blob.size = 0
       THEN LercEnds("c", "ArgError: Empty LERC data", 0)
       ELSE IF blob.infoRc # LERC_OK
       THEN LercEnds("c", "RuntimeError: LERC getBlobInfo failed", 0)
       ELSE IF blob.nCols <= 0 \/ blob.nRows <= 0 \/ blob.nBands <= 0
       THEN LercEnds("c", "RuntimeError: Invalid LERC dimensions", 0)
       ELSE IF blob.dataType # DT_FLOAT
       THEN LercEnds("c", "RuntimeError: Unsupported LERC data type", 0)
       ELSE IF blob.decodeRc # LERC_OK
       THEN LercEnds("c", "RuntimeError: LERC decode failed", 1)
       ELSE LET target_width == CropDim(blob.nCols)
                target_height == CropDim(blob.nRows)
                pixel_count == target_width * target_height
                elev == DecodedGrid(blob)
            IN  \E ub \in GridCastOutcomes(elev) :
                  LET conv == elevation_to_mapbox_c(elev, pixel_count, blob.nCols,
                                                    target_width, target_height, ub)
                  IN  IF conv.rc # 0
                      THEN LercEnds("c", "RuntimeError: Elevation to Mapbox conversion failed", 1)
                      ELSE IF ~create_png_c(target_width, target_height)
                      THEN LercEnds("c", "RuntimeError: PNG creation failed", 1)
                      ELSE /\ lout' = [width |-> target_width, height |-> target_height,
                                       rgb |-> conv.rgb]
                           /\ lelev' = elev
                           /\ lpc' = "done" /\ lentry' = "c" /\ lresult' = "PNG"
                           /\ ldecodes' = 1
                           /\ UNCHANGED <<blob, cvars, dvars>>

LercNext == lerc_to_mapbox_png \/ lerc_to_mapbox_png_c

SpecLerc == LercInit /\ [][LercNext]_vars

----------------------------------------------------------------------------
(* RasterDownsampler: terrain_downsample_extension.cpp (downsample_png)    *)

MAX_TARGET_SIZE == 1024

\* number of bytes of the decoded raster: PNG_IMAGE_SIZE
RgbSize(img) == img.width * img.height * 3

\* input_ptr[idx]; a read at or past the end of rgb_data is undefined and
\* gives the byte g that happens to lie there
ReadByte(img, idx, g) ==
    IF idx < RgbSize(img) THEN ItemAt(img.rgb, img.width * 3, idx) ELSE g

decode_elevation(img, idx, is_terrarium, g) ==
    IF is_terrarium
    THEN decode_terrarium(ReadByte(img, idx, g), ReadByte(img, idx + 1, g),
                          ReadByte(img, idx + 2, g))
    ELSE decode_mapbox_terrain_rgb(ReadByte(img, idx, g), ReadByte(img, idx + 1, g),
                                   ReadByte(img, idx + 2, g))

\* a + b in float: binary32 rounding for Terrarium.  Mapbox elevations are
\* multiples of 0.1, which binary32 cannot hold, so their sums are taken
\* exactly: where the exact mean lies on a half code (codes 0, 0, 1, 1) the
\* compiled code's rounding error decides the direction, the model rounds up.
\* No property below depends on the direction of such a tie.
FloatAdd(a, b, is_terrarium) == IF is_terrarium THEN F32Round(a + b) ELSE a + b

\* (e00 + e10 + e01 + e11) * 0.25f; the sum is a multiple of 4 units
Mean4(e00, e10, e01, e11, is_terrarium) ==
    FloatAdd(FloatAdd(FloatAdd(e00, e10, is_terrarium), e01, is_terrarium),
             e11, is_terrarium) \div 4

Max2(a, b) == IF a < b THEN b ELSE a

\* std::max({e00, e10, e01, e11})
Max4(e00, e10, e01, e11) == Max2(Max2(e00, e10), Max2(e01, e11))

encode_elevation(e, is_terrarium, ub) ==
    IF is_terrarium THEN encode_terrarium(e, ub)
    ELSE encode_mapbox_terrain_rgb("finite", e, INT32_MIN)

downsample_nearest(img, source_width, src_x, src_y, g) ==
    LET idx == (src_y * source_width + src_x) * 3
    IN  << ReadByte(img, idx, g), ReadByte(img, idx + 1, g), ReadByte(img, idx + 2, g) >>

downsample_average(img, source_width, src_x, src_y, is_terrarium, g, ub) ==
    LET idx00 == (src_y * source_width + src_x) * 3
        idx10 == (src_y * source_width + (src_x + 1)) * 3
        idx01 == ((src_y + 1) * source_width + src_x) * 3
        idx11 == ((src_y + 1) * source_width + (src_x + 1)) * 3
        e00 == decode_elevation(img, idx00, is_terrarium, g)
        e10 == decode_elevation(img, idx10, is_terrarium, g)
        e01 == decode_elevation(img, idx01, is_terrarium, g)
        e11 == decode_elevation(img, idx11, is_terrarium, g)
    IN  encode_elevation(Mean4(e00, e10, e01, e11, is_terrarium), is_terrarium, ub)

downsample_maximum(img, source_width, src_x, src_y, is_terrarium, g, ub) ==
    LET idx00 == (src_y * source_width + src_x) * 3
        idx10 == (src_y * source_width + (src_x + 1)) * 3
        idx01 == ((src_y + 1) * source_width + src_x) * 3
        idx11 == ((src_y + 1) * source_width + (src_x + 1)) * 3
        e00 == decode_elevation(img, idx00, is_terrarium, g)
        e10 == decode_elevation(img, idx10, is_terrarium, g)
        e01 == decode_elevation(img, idx01, is_terrarium, g)
        e11 == decode_elevation(img, idx11, is_terrarium, g)
    IN  encode_elevation(Max4(e00, e10, e01, e11), is_terrarium, ub)

\* mutant: the upper limit of target_size is not checked
InvalidTargetSizeNoUpper(target_size) == target_size <= 0

\* target_size <= 0 || target_size > 1024
InvalidTargetSize(target_size) == target_size <= 0 \/ target_size > MAX_TARGET_SIZE

\* mutant: strict comparisons in the no-op test
IsNoOpStrict(source_width, source_height, target_size) ==
    source_width < target_size /\ source_height < target_size

\* source_width <= target_size && source_height <= target_size
IsNoOp(source_width, source_height, target_size) ==
    source_width <= target_size /\ source_height <= target_size

\* const int scale_factor = source_width / target_size
ScaleFactor(source_width, target_size) == source_width \div target_size

\* mutant: the output raster keeps the aspect of a scale_factor of 2
OutputShapeHalved(target_size) ==
    [width |-> target_size, height |-> (target_size + 1) \div 2]

\* the loop bounds and the dimensions handed to create_png_from_rgb
OutputShape(target_size) == [width |-> target_size, height |-> target_size]

\* the byte index of the last byte a method reads for source sample (src_x, src_y)
LastIndexRead(method, source_width, src_x, src_y) ==
    IF method = "nearest"
    THEN (src_y * source_width + src_x) * 3 + 2
    ELSE ((src_y + 1) * source_width + (src_x + 1)) * 3 + 2

\* some read of the pixel loop is at or past the end of rgb_data
ReadsPastEnd(img, target_size, method) ==
    LET shape == OutputShape(target_size)
        sf == ScaleFactor(img.width, target_size)
    IN  \E out_y \in 0..(shape.height - 1), out_x \in 0..(shape.width - 1) :
            LastIndexRead(method, img.width, out_x * sf, out_y * sf) >= RgbSize(img)

\* the pixel loop: the bytes written through output_ptr
DownsampleLoop(img, target_size, is_terrarium, method, g, ub) ==
    LET shape == OutputShape(target_size)
        scale_factor == ScaleFactor(img.width, target_size)
        pixel == [ out_y \in 0..(shape.height - 1) |-> [ out_x \in 0..(shape.width - 1) |->
                    LET src_x == out_x * scale_factor
                        src_y == out_y * scale_factor
                    IN  CASE method = "nearest" ->
                               downsample_nearest(img, img.width, src_x, src_y, g)
                          [] method = "average" ->
                               downsample_average(img, img.width, src_x, src_y,
                                                  is_terrarium, g, ub)
                          [] method = "maximum" ->
                               downsample_maximum(img, img.width, src_x, src_y,
                                                  is_terrarium, g, ub) ] ]
    IN  [ y \in 1..shape.height |-> [ j \in 1..(shape.width * 3) |->
            pixel[y - 1][(j - 1) \div 3][((j - 1) % 3) + 1] ] ]

(* Inputs *)

MaxSrcDim == 4
MaxTarget == 2
MaxRasterPattern == 2

Palette ==
    << <<1, 134, 160>>, <<127, 255, 254>>, <<128, 0, 0>>, <<0, 0, 3>>, <<255, 255, 255>> >>

\* pixel i (row-major, from 0) of the source raster with content p
RasterPixel(p, i) == Palette[((i * p + (i \div 3)) % Len(Palette)) + 1]

Container(len, status, format, w, h, p) ==
    [ len |-> len, status |-> status, format |-> format, width |-> w, height |-> h,
      rgb |-> [ y \in 1..h |-> [ j \in 1..(w * 3) |->
                 RasterPixel(p, (y - 1) * w + ((j - 1) \div 3))[((j - 1) % 3) + 1] ] ] ]

\* the PNG strings passed in: RGB images of every shape, and the strings
\* decompress_png_to_rgb rejects
Containers ==
    { Container(64, "ok", "RGB", w, h, p) :
        w \in 1..MaxSrcDim, h \in 1..MaxSrcDim, p \in 1..MaxRasterPattern }
    \cup { Container(0, "ok", "RGB", 2, 2, 1),
           Container(64, "corrupted", "RGB", 2, 2, 1),
           Container(64, "ok", "RGBA", 2, 2, 1),
           Container(64, "truncated", "RGB", 2, 2, 1) }

TargetSizes == (1..MaxTarget) \cup {-1, 0, MAX_TARGET_SIZE, MAX_TARGET_SIZE + 1, 2000}

\* the bytes found past the end of rgb_data
BytesPastEnd == {0, 255}

DownInit ==
    /\ dpc = "idle"
    /\ dargs \in [ png : Containers, target_size : TargetSizes,
                    encoding_type : {"mapbox", "terrarium", "terrain"},
                    method : {"average", "nearest", "maximum", "bilinear"} ]
    /\ dresult = "none" /\ dout = NoRaster /\ dtrace = NoTrace
    /\ CodecIdle /\ LercIdle

\* rb_raise: the call ends with no output
DownRaises(result, png_decoded) ==
    /\ dpc' = "done" /\ dresult' = result /\ dout' = NoRaster
    /\ dtrace' = [NoTrace EXCEPT !.png_decoded = png_decoded]
    /\ UNCHANGED <<dargs, cvars, lvars>>

downsample_png ==
    /\ dpc = "idle"
    /\ LET png == dargs.png
           target_size == dargs.target_size
           is_terrarium == (dargs.encoding_type = "terrarium")
           method == dargs.method
       IN
       IF png.len = 0
       THEN DownRaises("ArgError: Empty PNG data", FALSE)
       ELSE IF InvalidTargetSize(target_size)
       THEN DownRaises("ArgError: Invalid target size", FALSE)
       ELSE IF ~is_terrarium /\ dargs.encoding_type # "mapbox"
       THEN DownRaises("ArgError: Unknown encoding type", FALSE)
       ELSE IF method \notin {"average", "nearest", "maximum"}
       THEN DownRaises("ArgError: Unknown downsample method", FALSE)
       ELSE IF png.status = "corrupted"
       THEN DownRaises("RuntimeError: Failed to read PNG", TRUE)
       ELSE IF png.format # "RGB"
       THEN DownRaises("RuntimeError: Invalid PNG format", TRUE)
       ELSE IF png.status # "ok"
       THEN DownRaises("RuntimeError: Failed to decode PNG data", TRUE)
       ELSE IF IsNoOp(png.width, png.height, target_size)
       THEN /\ dpc' = "done" /\ dresult' = "png_data" /\ dout' = png
            /\ dtrace' = [NoTrace EXCEPT !.png_decoded = TRUE]
            /\ UNCHANGED <<dargs, cvars, lvars>>
       ELSE LET oob == ReadsPastEnd(png, target_size, method)
                shape == OutputShape(target_size)
                calls == IF method = "nearest" THEN 0 ELSE shape.width * shape.height
            IN  \E g \in (IF oob THEN BytesPastEnd ELSE {0}),
                   ub \in (IF is_terrarium /\ method # "nearest"
                           THEN CastUint8OutOfRange ELSE {0}),
                   fault \in (IF oob THEN {FALSE, TRUE} ELSE {FALSE}) :
                  /\ dpc' = "done"
                  /\ dresult' = IF fault THEN "SIGSEGV" ELSE "PNG"
                  /\ dout' = IF fault THEN NoRaster
                             ELSE [ len |-> 64, status |-> "ok", format |-> "RGB",
                                    width |-> shape.width, height |-> shape.height,
                                    rgb |-> DownsampleLoop(png, target_size, is_terrarium,
                                                           method, g, ub) ]
                  /\ dtrace' = [ png_decoded |-> TRUE, decodes |-> 4 * calls,
                                 encodes |-> calls, oob |-> oob ]
                  /\ UNCHANGED <<dargs, cvars, lvars>>

DownNext == downsample_png

SpecDownsample == DownInit /\ [][DownNext]_vars

----------------------------------------------------------------------------
(* Claims about the LERC pipeline *)

\* the three bytes of output pixel (x, y) of the raster handed to the PNG writer
OutPixel(raster, x, y) ==
    LET k == (y * raster.width + x) * 3
    IN  << ItemAt(raster.rgb, raster.width * 3, k),
           ItemAt(raster.rgb, raster.width * 3, k + 1),
           ItemAt(raster.rgb, raster.width * 3, k + 2) >>

\* C2: the pipeline writes, for every decoded elevation e, the bytes that
\* encode_mapbox_terrain_rgb produces for e (code = round((e + 10000) / 0.1),
\* clamped and packed).
C2_PipelineUsesCodecFormula ==
    (lpc = "done" /\ lresult = "PNG") =>
        \A y \in 0..(lout.height - 1), x \in 0..(lout.width - 1) :
            LET e == ItemAt(lelev, blob.nCols, y * blob.nCols + x)
            IN  \E ub \in CastInt32OutOfRange(e.cls) :
                    OutPixel(lout, x, y) = encode_mapbox_terrain_rgb(e.cls, e.v, ub)

\* the outcome classes of the decoder contract
Outcome(result) ==
    CASE result = "ArgError: Empty LERC data" -> "FormatError"
      [] result = "RuntimeError: LERC getBlobInfo failed" -> "FormatError"
      [] result = "RuntimeError: Invalid LERC dimensions" -> "ShapeError"
      [] result = "RuntimeError: Unsupported LERC data type" -> "UnsupportedTypeError"
      [] result = "Qnil" -> "NoData"
      [] result = "RuntimeError: LERC decode failed" -> "DecodeError"
      [] result = "PNG" -> "Grid"
      [] OTHER -> "Other"

\* the five checks of the decoder contract, in order
FirstFailedCheck(b) ==
    IF b.size = 0 THEN "FormatError"
    ELSE IF b.infoRc # 0 THEN "FormatError"
    ELSE IF b.nCols <= 0 \/ b.nRows <= 0 \/ b.nBands <= 0 THEN "ShapeError"
    ELSE IF b.dataType # 6 THEN "UnsupportedTypeError"
    ELSE IF b.nValidPixels <= 0 THEN "NoData"
    ELSE "none"

\* C3: the first failing check decides the outcome; lerc_decode is requested
\* only when all five checks pass, and its failure gives DecodeError.
C3_ChecksInOrder ==
    lpc = "done" =>
        /\ FirstFailedCheck(blob) # "none"
              => Outcome(lresult) = FirstFailedCheck(blob) /\ ldecodes = 0
        /\ FirstFailedCheck(blob) = "none"
              => /\ ldecodes = 1
                 /\ Outcome(lresult) = IF blob.decodeRc # 0 THEN "DecodeError" ELSE "Grid"

\* C10: a 257x257 grid is emitted as a 256x256 raster: output pixel (x, y)
\* encodes the grid value at index y*257 + x, so row 256 and column 256 are
\* dropped, and the RGB buffer has width * height * 3 bytes.
C10_CropDropsLastRowAndColumn ==
    (lpc = "done" /\ lresult = "PNG" /\ blob.nCols = 257 /\ blob.nRows = 257) =>
        /\ lout.width = 256 /\ lout.height = 256
        /\ BufferLen(lout.rgb) = lout.width * lout.height * 3
        /\ \A y \in 0..255, x \in 0..255 :
              \E ub \in CastInt32OutOfRange("above_int32") :
                  OutPixel(lout, x, y) = Pack24(LercMapboxCode(ItemAt(lelev, 257, y * 257 + x), ub))

C10_Witness ==
    /\ lpc = "done" /\ lresult = "PNG" /\ blob.nCols = 257 /\ blob.nRows = 257
    /\ BufferLen(lout.rgb) = 196608

----------------------------------------------------------------------------
(* Claims about the pixel codec *)

\* the elevation is in the scheme's representable domain
InCodecDomain(scheme, e) ==
    /\ e.cls = "finite"
    /\ IF scheme = "mapbox"
       THEN /\ -(MAPBOX_TERRAIN_RGB_OFFSET * MbxPerM) <= e.v
            /\ e.v <= MAPBOX_TERRAIN_RGB_MAX_24BIT * MbxSub
                        - MAPBOX_TERRAIN_RGB_OFFSET * MbxPerM
       ELSE InTerrariumDomain(e.v)

\* the scheme's quantization step: 0.1 m (Mapbox), 1/256 m (Terrarium)
QuantizationStep(scheme) ==
    IF scheme = "mapbox" THEN MbxSub ELSE TerPerM \div 256

\* C1: for every elevation e of the scheme's representable domain, decoding
\* the bytes written by encoding e gives an elevation within one quantization
\* step of e (0.1 for Mapbox, 1/256 for Terrarium).
C1_RoundTripWithinStep ==
    (cpc = "decoded" /\ InCodecDomain(cscheme, celev))
        => Abs(cdec - celev.v) <= QuantizationStep(cscheme)

\* order of elevations, the classes outside int32 included
ElevLeq(e1, e2) ==
    \/ e1.cls = "below_int32"
    \/ e2.cls = "above_int32"
    \/ e1.cls = "finite" /\ e2.cls = "finite" /\ e1.v <= e2.v

\* round((e + 10000) / 0.1) < 0, resp. > 16777215, as a real number
CodeBelowZero(e) ==
    \/ e.cls = "below_int32"
    \/ e.cls = "finite"
         /\ RoundDiv(e.v + MAPBOX_TERRAIN_RGB_OFFSET * MbxPerM, MbxSub) < 0
CodeAboveMax(e) ==
    \/ e.cls = "above_int32"
    \/ e.cls = "finite"
         /\ RoundDiv(e.v + MAPBOX_TERRAIN_RGB_OFFSET * MbxPerM, MbxSub)
              > MAPBOX_TERRAIN_RGB_MAX_24BIT

Packed(rgb) == rgb[1] * 65536 + rgb[2] * 256 + rgb[3]

\* C9: Mapbox encode saturates and never wraps: a code below 0 gives (0,0,0),
\* a code above 16777215 gives (255,255,255), and the packed 24-bit code is
\* non-decreasing in the elevation.
C9_MapboxSaturates ==
    (cscheme = "mapbox" /\ cpc \in {"encoded", "decoded"}) =>
        /\ CodeBelowZero(celev) => crgb = <<0, 0, 0>>
        /\ CodeAboveMax(celev) => crgb = <<255, 255, 255>>
        /\ (cprev # NoCall /\ ElevLeq(cprev.elev, celev))
               => Packed(cprev.rgb) <= Packed(crgb)

----------------------------------------------------------------------------
(* Claims about the downsampler *)

ValidParameters(a) ==
    /\ a.target_size > 0 /\ a.target_size <= 1024
    /\ a.encoding_type \in {"mapbox", "terrarium"}
    /\ a.method \in {"average", "nearest", "maximum"}

\* the container is a non-empty, readable RGB image
ValidContainer(png) == png.len > 0 /\ png.status = "ok" /\ png.format = "RGB"

\* position (x, y) is a pixel of the image
InRaster(img, x, y) == 0 <= x /\ x < img.width /\ 0 <= y /\ y < img.height

\* the three bytes of pixel (x, y) of an image
PixelAt(img, x, y) == << img.rgb[y + 1][3 * x + 1], img.rgb[y + 1][3 * x + 2],
                         img.rgb[y + 1][3 * x + 3] >>

\* C4: with method Nearest, every output pixel (out_x, out_y) has exactly the
\* bytes of the source pixel at (out_x * scale_factor, out_y * scale_factor),
\* scale_factor = floor(source_width / target_size), for either scheme.
C4_NearestCopiesSourcePixel ==
    (dpc = "done" /\ dresult = "PNG" /\ dargs.method = "nearest") =>
        LET sf == dargs.png.width \div dargs.target_size
        IN  \A out_y \in 0..(dargs.target_size - 1), out_x \in 0..(dargs.target_size - 1) :
                /\ InRaster(dargs.png, out_x * sf, out_y * sf)
                /\ PixelAt(dout, out_x, out_y) = PixelAt(dargs.png, out_x * sf, out_y * sf)

\* the elevation a scheme decodes from pixel (x, y) of the source
DecodedAt(img, x, y, scheme) ==
    LET px == PixelAt(img, x, y)
    IN  IF scheme = "terrarium" THEN decode_terrarium(px[1], px[2], px[3])
        ELSE decode_mapbox_terrain_rgb(px[1], px[2], px[3])

\* C5: with method Average or Maximum, every output pixel is the scheme's
\* encoding of the mean, resp. maximum, of the four elevations decoded from the
\* source pixels (x,y), (x+1,y), (x,y+1), (x+1,y+1), (x,y) = (out_x * sf, out_y * sf),
\* for every scale_factor.
C5_AggregatesTwoByTwoBlock ==
    (dpc = "done" /\ dresult = "PNG" /\ dargs.method \in {"average", "maximum"}) =>
        LET sf == dargs.png.width \div dargs.target_size
            img == dargs.png
            ter == (dargs.encoding_type = "terrarium")
        IN  \A out_y \in 0..(dargs.target_size - 1), out_x \in 0..(dargs.target_size - 1) :
              LET x == out_x * sf
                  y == out_y * sf
              IN  /\ InRaster(img, x, y) /\ InRaster(img, x + 1, y + 1)
                  /\ LET e00 == DecodedAt(img, x, y, dargs.encoding_type)
                         e10 == DecodedAt(img, x + 1, y, dargs.encoding_type)
                         e01 == DecodedAt(img, x, y + 1, dargs.encoding_type)
                         e11 == DecodedAt(img, x + 1, y + 1, dargs.encoding_type)
                         agg == IF dargs.method = "average"
                                THEN Mean4(e00, e10, e01, e11, ter)
                                ELSE Max4(e00, e10, e01, e11)
                     IN  \E ub \in CastUint8OutOfRange :
                            PixelAt(dout, out_x, out_y) = encode_elevation(agg, ter, ub)

C7_NoOpReturnsInput ==
    (dpc = "done" /\ ValidParameters(dargs) /\ ValidContainer(dargs.png)
       /\ dargs.png.width <= dargs.target_size /\ dargs.png.height <= dargs.target_size) =>
        /\ dresult = "png_data"
        /\ dout = dargs.png
        /\ dtrace.decodes = 0 /\ dtrace.encodes = 0

C7_Witness ==
    /\ dpc = "done" /\ dresult = "png_data"
    /\ dargs.png.width = dargs.target_size /\ dargs.png.height = dargs.target_size
    /\ dargs.method = "average" /\ dout = dargs.png

\* C8: target_size <= 0 or > 1024, an unknown scheme or an unknown method is
\* rejected with a validation error before the container is decoded, with no
\* output; nothing unknown is replaced by a default.
C8_ValidationFirst ==
    (dpc = "done" /\ ~ValidParameters(dargs)) =>
        /\ dresult \in {"ArgError: Empty PNG data", "ArgError: Invalid target size",
                         "ArgError: Unknown encoding type",
                         "ArgError: Unknown downsample method"}
        /\ ~dtrace.png_decoded
        /\ dout = NoRaster

C8_Witness ==
    /\ dpc = "done" /\ dargs.target_size = 2000 /\ dargs.png.len > 0
    /\ dresult = "ArgError: Invalid target size" /\ ~dtrace.png_decoded

\* the source positions <<column, row>> a method reads for the sample
\* (src_x, src_y): the sample itself for nearest, the 2x2 block anchored
\* there for average and maximum
SourcePositionsRead(method, src_x, src_y) ==
    IF method = "nearest"
    THEN { <<src_x, src_y>> }
    ELSE { <<src_x, src_y>>, <<src_x + 1, src_y>>,
           <<src_x, src_y + 1>>, <<src_x + 1, src_y + 1>> }

\* C11: for every call that passes validation and is not taken by the no-op
\* path, every source position read for every output pixel has column <
\* source_width and row < source_height, and so no byte index read is at or
\* past source_width * source_height * 3, for every source shape.
C11_ReadsInsideSource ==
    (dpc = "done" /\ ValidParameters(dargs) /\ ValidContainer(dargs.png)
       /\ ~(dargs.png.width <= dargs.target_size /\ dargs.png.height <= dargs.target_size)) =>
        LET scale_factor == ScaleFactor(dargs.png.width, dargs.target_size)
            shape == OutputShape(dargs.target_size)
        IN  /\ \A out_y \in 0..(shape.height - 1), out_x \in 0..(shape.width - 1) :
                 \A pos \in SourcePositionsRead(dargs.method, out_x * scale_factor,
                                                out_y * scale_factor) :
                     /\ pos[1] < dargs.png.width
                     /\ pos[2] < dargs.png.height
                     /\ (pos[2] * dargs.png.width + pos[1]) * 3 + 2 < RgbSize(dargs.png)
            /\ ~dtrace.oob
            /\ dresult # "SIGSEGV"

====
